---- MODULE Spec2Model ----
(***************************************************************************)
(* Model of src/app.py: the AI meme creator.                               *)
(*                                                                         *)
(* Strings are sequences of one-character strings, so that str.replace,    *)
(* str.strip, the `in` test, str.upper, str.endswith and textwrap.fill are *)
(* modelled by what they do to the characters.  The alphabet of the inputs *)
(* holds no tab and no hyphen, so the tab expansion and the hyphen         *)
(* splitting of textwrap never apply.                                      *)
(*                                                                         *)
(* Three specifications share the variables:                               *)
(*   Spec         the Streamlit script: startup, the sidebar controls and  *)
(*                the generate button handler;                             *)
(*   SpecCaption  generate_caption applied to bounded inputs;              *)
(*   SpecRender   create_image_with_text applied to bounded inputs.        *)
(***************************************************************************)
EXTENDS Integers, Sequences, FiniteSets, TLC

\* ------------------------------------------------------------------ bounds

\* Longest raw text of the generation capability, in pieces (SpecCaption).
MaxPieces == 3

\* Longest caption handed to the renderer, in pieces (SpecRender).
MaxWords == 3

\* ------------------------------------------------------- string primitives

Whitespace == {" ", "\n"}

RECURSIVE Flat(_)
Flat(ps) == IF ps = <<>> THEN <<>> ELSE Head(ps) \o Flat(Tail(ps))

SeqsUpTo(S, n) == UNION {[1..k -> S] : k \in 0..n}

\* s[i..] starts with p
StartsWithAt(s, p, i) ==
    /\ i + Len(p) - 1 <= Len(s)
    /\ \A k \in 1..Len(p) : s[i + k - 1] = p[k]

\* p in s
Contains(s, p) == \E i \in 1..(Len(s) - Len(p) + 1) : StartsWithAt(s, p, i)

\* s.endswith(p)
EndsWith(s, p) == Len(p) <= Len(s) /\ StartsWithAt(s, p, Len(s) - Len(p) + 1)

\* s.replace(old, ""), old not empty: the occurrences found by one scan from
\* the left, each scan resuming after the occurrence it removed.
RECURSIVE Replace(_, _)
Replace(s, old) ==
    LET found == {i \in 1..(Len(s) - Len(old) + 1) : StartsWithAt(s, old, i)}
        first == CHOOSE i \in found : \A j \in found : i <= j
    IN  IF found = {} THEN s
        ELSE SubSeq(s, 1, first - 1)
                \o Replace(SubSeq(s, first + Len(old), Len(s)), old)

RECURSIVE LStrip(_)
LStrip(s) == IF s # <<>> /\ Head(s) \in Whitespace THEN LStrip(Tail(s)) ELSE s

RECURSIVE RStrip(_)
RStrip(s) ==
    IF s # <<>> /\ s[Len(s)] \in Whitespace
    THEN RStrip(SubSeq(s, 1, Len(s) - 1)) ELSE s

\* s.strip()
Strip(s) == RStrip(LStrip(s))

\* ---------------------------------------------------------------- literals

PROMPT_HEAD ==
    <<"A"," ","s","h","o","r","t",","," ","f","u","n","n","y"," ",
      "m","e","m","e"," ","c","a","p","t","i","o","n"," ","f","o","r"," ",
      "a","n"," ","i","m","a","g","e",","," ","o","n"," ","t","h","e"," ",
      "t","o","p","i","c"," ","o","f"," ">>

PROMPT_TAIL == <<":">>

EMPTY_TOPIC_MSG ==
    <<"P","l","e","a","s","e"," ","e","n","t","e","r"," ","a"," ",
      "t","o","p","i","c","!">>

FALLBACK_MSG ==
    <<"A","I"," ","c","o","u","l","d"," ","n","o","t"," ",
      "g","e","n","e","r","a","t","e"," ","a"," ",
      "c","a","p","t","i","o","n",".">>

ERROR_MSG ==
    <<"E","r","r","o","r"," ","g","e","n","e","r","a","t","i","n","g"," ",
      "t","e","x","t",".">>

ERROR_WORD == <<"E","r","r","o","r">>

\* f"A short, funny meme caption for an image, on the topic of {prompt_text}:"
FullPrompt(prompt_text) == PROMPT_HEAD \o prompt_text \o PROMPT_TAIL

\* ------------------------------------------------------- caption generator

\* What the text-generation capability does on one invocation: it raises,
\* it returns something without sequences[0]['generated_text'], or it
\* returns a text.
GenRaise == [kind |-> "raise", text |-> <<>>]
GenMalformed == [kind |-> "malformed", text |-> <<>>]
GenText(t) == [kind |-> "text", text |-> t]
NoGen == [kind |-> "none", text |-> <<>>]

\* generate_caption without the test of the empty topic
generate_caption_AlwaysInvoke(prompt_text, g) ==
    LET full_prompt == FullPrompt(prompt_text)
        generated_text == Strip(Replace(g.text, full_prompt))
    IN  IF g.kind # "text"
        THEN [ret |-> ERROR_MSG, calls |-> 1, errors |-> {"gen_error"}]
        ELSE [ret |-> IF generated_text # <<>> THEN generated_text
                      ELSE FALLBACK_MSG,
              calls |-> 1, errors |-> {}]

\* generate_caption(prompt_text), the capability answering g if invoked.
\* ret: the returned string; calls: invocations of text_generator;
\* errors: the st.error banners raised inside the function.
generate_caption(prompt_text, g) ==
    IF prompt_text = <<>>
    THEN [ret |-> EMPTY_TOPIC_MSG, calls |-> 0, errors |-> {}]
    ELSE LET full_prompt == FullPrompt(prompt_text)
             generated_text == Strip(Replace(g.text, full_prompt))
         IN  IF g.kind # "text"
             THEN [ret |-> ERROR_MSG, calls |-> 1, errors |-> {"gen_error"}]
             ELSE [ret |-> IF generated_text # <<>> THEN generated_text
                           ELSE FALLBACK_MSG,
                   calls |-> 1, errors |-> {}]

\* The raw texts the capability may return for a prompt: up to n pieces out
\* of the echoed prompt, its two halves, blanks, a short continuation and a
\* continuation holding the word "Error".
RawPieces(prompt_text) ==
    { FullPrompt(prompt_text), PROMPT_HEAD, prompt_text \o PROMPT_TAIL,
      <<" ">>, <<" ","s","o"," ","t","r","u","e","\n">>,
      <<" ","E","r","r","o","r"," ","4","0","4">> }

RawTexts(prompt_text, n) ==
    { Flat(ps) : ps \in SeqsUpTo(RawPieces(prompt_text), n) }

GenOutcomes(prompt_text) ==
    {GenRaise, GenMalformed}
        \cup { GenText(t) : t \in RawTexts(prompt_text, MaxPieces) }

Topics == { <<>>, <<"x">>, <<"t","e","a">> }

\* the topics typed in the script runs
ScriptTopics == { <<>>, <<"t","e","a">> }

\* ---------------------------------------------------- text overlay renderer

LOWER ==
    <<"a","b","c","d","e","f","g","h","i","j","k","l","m",
      "n","o","p","q","r","s","t","u","v","w","x","y","z">>

UPPERCASE ==
    <<"A","B","C","D","E","F","G","H","I","J","K","L","M",
      "N","O","P","Q","R","S","T","U","V","W","X","Y","Z">>

UpperChar(c) ==
    IF \E i \in 1..26 : LOWER[i] = c
    THEN UPPERCASE[CHOOSE i \in 1..26 : LOWER[i] = c] ELSE c

\* top_text.upper()
Upper(s) == [i \in 1..Len(s) |-> UpperChar(s[i])]

IsBlank(chunk) == \A i \in 1..Len(chunk) : chunk[i] \in Whitespace

\* TextWrapper._munge_whitespace: every whitespace character becomes a space
MungeWhitespace(s) ==
    [i \in 1..Len(s) |-> IF s[i] \in Whitespace THEN " " ELSE s[i]]

\* TextWrapper._split: the maximal runs of spaces and of other characters
RECURSIVE SplitChunks(_)
SplitChunks(s) ==
    IF s = <<>> THEN <<>>
    ELSE LET sp == (Head(s) = " ")
             n == CHOOSE k \in 1..Len(s) :
                     /\ \A j \in 1..k : (s[j] = " ") = sp
                     /\ k = Len(s) \/ (s[k + 1] = " ") # sp
         IN  <<SubSeq(s, 1, n)>> \o SplitChunks(SubSeq(s, n + 1, Len(s)))

\* the inner loop leaving after the first chunk
FillLine_OneChunk(chunks, cur_line, cur_len, width) ==
    IF chunks # <<>> /\ cur_line = <<>> /\ Len(Head(chunks)) <= width
    THEN [cur_line |-> <<Head(chunks)>>, cur_len |-> Len(Head(chunks)),
          chunks |-> Tail(chunks)]
    ELSE [cur_line |-> cur_line, cur_len |-> cur_len, chunks |-> chunks]

\* the inner loop of _wrap_chunks: chunks go onto the current line while
\* they fit
RECURSIVE FillLine(_, _, _, _)
FillLine(chunks, cur_line, cur_len, width) ==
    IF chunks # <<>> /\ cur_len + Len(Head(chunks)) <= width
    THEN FillLine(Tail(chunks), Append(cur_line, Head(chunks)),
                  cur_len + Len(Head(chunks)), width)
    ELSE [cur_line |-> cur_line, cur_len |-> cur_len, chunks |-> chunks]

\* TextWrapper._handle_long_word with break_long_words: the part of the
\* chunk that fits in the space left goes onto the current line
handle_long_word(chunks, cur_line, cur_len, width) ==
    LET space_left == IF width < 1 THEN 1 ELSE width - cur_len
        chunk == Head(chunks)
    IN  [cur_line |-> Append(cur_line, SubSeq(chunk, 1, space_left)),
         chunks |-> <<SubSeq(chunk, space_left + 1, Len(chunk))>>
                        \o Tail(chunks)]

\* TextWrapper._wrap_chunks with drop_whitespace, width >= 1
RECURSIVE wrap_chunks(_, _, _)
wrap_chunks(chunks0, width, lines) ==
    IF chunks0 = <<>> THEN lines
    ELSE LET chunks1 == IF IsBlank(Head(chunks0)) /\ lines # <<>>
                        THEN Tail(chunks0) ELSE chunks0
             f == FillLine(chunks1, <<>>, 0, width)
             h == IF f.chunks # <<>> /\ Len(Head(f.chunks)) > width
                  THEN handle_long_word(f.chunks, f.cur_line, f.cur_len, width)
                  ELSE [cur_line |-> f.cur_line, chunks |-> f.chunks]
             n == Len(h.cur_line)
             cur_line == IF n > 0 /\ IsBlank(h.cur_line[n])
                         THEN SubSeq(h.cur_line, 1, n - 1) ELSE h.cur_line
         IN  wrap_chunks(h.chunks, width,
                         IF cur_line # <<>> THEN Append(lines, Flat(cur_line))
                         ELSE lines)

RECURSIVE JoinLines(_)
JoinLines(lines) ==
    IF lines = <<>> THEN <<>>
    ELSE IF Len(lines) = 1 THEN lines[1]
    ELSE lines[1] \o <<"\n">> \o JoinLines(Tail(lines))

\* textwrap.fill(text, width=width), width >= 1
TextWrapFill(text, width) ==
    JoinLines(wrap_chunks(SplitChunks(MungeWhitespace(text)), width, <<>>))

\* Number of lines of a wrapped text
LineCount(text) ==
    IF text = <<>> THEN 0
    ELSE 1 + Cardinality({i \in 1..Len(text) : text[i] = "\n"})

TEMPLATE_DIR == <<"t","e","m","p","l","a","t","e","s">>

\* os.path.join(TEMPLATE_DIR, selected_template)
TemplatePath(name) == TEMPLATE_DIR \o <<"/">> \o name

A_PNG == <<"a",".","p","n","g">>
B_JPG == <<"b",".","j","p","g">>
C_JPEG == <<"c",".","j","p","e","g">>
NOTES_TXT == <<"n","o","t","e","s",".","t","x","t">>
SHOT_PNG_UPPER == <<"s","h","o","t",".","P","N","G">>

\* img.size of the image files on disk
ImageSize(template_path) ==
    IF template_path = TemplatePath(A_PNG) THEN <<360, 200>>
    ELSE IF template_path = TemplatePath(B_JPG) THEN <<800, 600>>
    ELSE <<16, 16>>

\* The font asset FONT_FILE: missing, or present with the advance width of
\* its uppercase letters in 1/1000 of the font size.
FontMissing == [present |-> FALSE, advance |-> 0]
Fonts == {FontMissing, [present |-> TRUE, advance |-> 650],
          [present |-> TRUE, advance |-> 1000]}

\* the font asset in the script runs
ScriptFonts == {FontMissing, [present |-> TRUE, advance |-> 650]}

\* How Image.open(template_path) ends
TemplateLoads == {"ok", "missing", "unreadable"}

\* font.getbbox(char)[2]: the glyph's right edge in whole pixels
GetBBoxRight(fnt, char, font_size) == (font_size * fnt.advance + 999) \div 1000

RECURSIVE SumBBox(_, _, _)
SumBBox(fnt, chars, font_size) ==
    IF chars = <<>> THEN 0
    ELSE GetBBoxRight(fnt, Head(chars), font_size)
            + SumBBox(fnt, Tail(chars), font_size)

\* int(image_width / 18)
FontSize(image_width) == image_width \div 18

\* int(image_width * 0.9 / avg_char_width), avg_char_width = sum26 / 26
CharsPerLine(image_width, sum26) == (image_width * 9 * 26) \div (10 * sum26)

None == [kind |-> "None"]

position_y == 15

\* the four outline passes in black, then the main pass in white
DrawPasses ==
    << [dx |-> 0 - 2, dy |-> 0 - 2, fill |-> "black"],
       [dx |-> 0 - 2, dy |-> 2, fill |-> "black"],
       [dx |-> 2, dy |-> 0 - 2, fill |-> "black"],
       [dx |-> 2, dy |-> 2, fill |-> "black"],
       [dx |-> 0, dy |-> 0, fill |-> "white"] >>

\* Image.open(template_path)
OpenImage(template_path) ==
    [kind |-> "Image", size |-> ImageSize(template_path),
     template |-> template_path, text |-> <<>>, y |-> 0, passes |-> <<>>]

\* drawing onto a canvas extended by the top padding
DrawText_Resized(img, wrapped_text) ==
    [img EXCEPT !.text = wrapped_text, !.y = position_y, !.passes = DrawPasses,
                !.size = <<img.size[1], img.size[2] + position_y>>]

\* the draw.text calls on the opened image
DrawText(img, wrapped_text) ==
    [img EXCEPT !.text = wrapped_text, !.y = position_y, !.passes = DrawPasses]

\* create_image_with_text(template_path, top_text), Image.open ending as
\* tl and the font asset being fnt.  img: the returned image or None;
\* errors: the st.error banners raised inside the function.
create_image_with_text(template_path, top_text, tl, fnt) ==
    LET img == OpenImage(template_path)
        image_width == img.size[1]
        font_size == FontSize(image_width)
        sum26 == SumBBox(fnt, UPPERCASE, font_size)
        chars_per_line == CharsPerLine(image_width, sum26)
        wrapped_text == TextWrapFill(Upper(top_text), chars_per_line)
    IN  IF tl = "missing"
        THEN [img |-> None, errors |-> {"template_not_found"}]
        ELSE IF tl = "unreadable"
        THEN [img |-> None, errors |-> {"image_error"}]
        ELSE IF font_size <= 0
        THEN [img |-> None, errors |-> {"image_error"}]
        ELSE IF ~fnt.present
        THEN [img |-> None, errors |-> {"font_not_found"}]
        ELSE IF sum26 = 0
        THEN [img |-> None, errors |-> {"image_error"}]
        ELSE IF chars_per_line <= 0
        THEN [img |-> None, errors |-> {"image_error"}]
        ELSE [img |-> DrawText(img, wrapped_text), errors |-> {}]

\* -------------------------------------------------------- template catalog

SUFFIXES == { <<"p","n","g">>, <<"j","p","g">>, <<"j","p","e","g">> }

MatchesSuffix(f) == \E suf \in SUFFIXES : EndsWith(f, suf)

\* the listing without the filter
list_templates_Unfiltered(names) == names

\* [f for f in os.listdir(TEMPLATE_DIR) if f.endswith(('png', 'jpg', 'jpeg'))]
list_templates(names) == SelectSeq(names, MatchesSuffix)

\* What os.listdir(TEMPLATE_DIR) finds: no directory, or the names in it
DirAbsent == [exists |-> FALSE, names |-> <<>>]
Dirs ==
    { DirAbsent,
      [exists |-> TRUE, names |-> <<>>],
      [exists |-> TRUE, names |-> <<NOTES_TXT, SHOT_PNG_UPPER>>],
      [exists |-> TRUE, names |-> <<SHOT_PNG_UPPER, C_JPEG>>],
      [exists |-> TRUE, names |-> <<A_PNG, NOTES_TXT, B_JPG>>] }

\* ------------------------------------------------------------------- state

VARIABLES
    phase,              \* where the script or the call under test stands
    modelOk,            \* whether load_model() succeeds
    dir,                \* the template directory on disk
    font,               \* the font asset on disk
    controls,           \* the sidebar controls have been created
    templates,          \* the template catalog
    selected_template,  \* the selectbox
    prompt,             \* the topic text input
    generate_button,    \* this script run was started by the button
    gen,                \* what the capability did when invoked in this run
    tload,              \* how Image.open ended in this run
    io,                 \* how displaying and saving the meme ended
    caption,            \* the value generate_caption returned
    modelCalls,         \* invocations of text_generator in this run
    renderCalls,        \* the calls of create_image_with_text in this run
    final_image,        \* what create_image_with_text returned
    shown,              \* the meme is displayed
    download,           \* the download button is offered
    messages,           \* the banners displayed by the script
    crashed,            \* an exception left the script uncaught
    outputFile,         \* meme_output.png
    lastRendered,       \* the image of the latest successful render
    triggered           \* the button has been pressed at some time

vars ==
    <<phase, modelOk, dir, font, controls, templates, selected_template,
      prompt, generate_button, gen, tload, io, caption, modelCalls,
      renderCalls, final_image, shown, download, messages, crashed,
      outputFile, lastRendered, triggered>>

NoFile == [kind |-> "absent"]
Truncated == [kind |-> "truncated"]

\* How displaying and saving a rendered meme ends: both succeed; st.image
\* raises; opening meme_output.png for writing fails; the encoder fails
\* after the file was opened for writing.
IOOutcomes == {"ok", "display_fail", "save_open_fail", "save_encode_fail"}

\* The outputs of a script run in which the button was not pressed
NoRun ==
    /\ generate_button' = FALSE
    /\ gen' = NoGen
    /\ tload' = "unused"
    /\ io' = "unused"
    /\ caption' = <<>>
    /\ modelCalls' = 0
    /\ renderCalls' = <<>>
    /\ final_image' = None
    /\ shown' = FALSE
    /\ download' = FALSE
    /\ crashed' = FALSE

\* the same, for an initial state
NoRunYet ==
    /\ generate_button = FALSE
    /\ gen = NoGen
    /\ tload = "unused"
    /\ io = "unused"
    /\ caption = <<>>
    /\ modelCalls = 0
    /\ renderCalls = <<>>
    /\ final_image = None
    /\ shown = FALSE
    /\ download = FALSE
    /\ crashed = FALSE

\* --------------------------------------------------- the Streamlit script

Init ==
    /\ phase = "start"
    /\ modelOk \in BOOLEAN
    /\ dir \in Dirs
    /\ font \in ScriptFonts
    /\ controls = FALSE
    /\ templates = <<>>
    /\ selected_template = <<>>
    /\ prompt = <<>>
    /\ NoRunYet
    /\ messages = {}
    /\ outputFile = NoFile
    /\ lastRendered = NoFile
    /\ triggered = FALSE

\* The first run of the script: the model is loaded, the catalog is listed,
\* and the controls are created unless st.stop() ended the run before.
Startup ==
    /\ phase = "start"
    /\ LET ts == list_templates(dir.names)
           stop == ~modelOk \/ ~dir.exists \/ ts = <<>>
       IN  /\ messages' = IF ~modelOk THEN {"model_error"}
                          ELSE IF ~dir.exists THEN {"dir_not_found"}
                          ELSE IF ts = <<>> THEN {"no_templates"}
                          ELSE {"info"}
           /\ phase' = IF stop THEN "stopped" ELSE "ready"
           /\ controls' = ~stop
           /\ templates' = IF stop THEN <<>> ELSE ts
           /\ selected_template' = IF stop THEN <<>> ELSE ts[1]
    /\ prompt' = <<>>
    /\ NoRun
    /\ UNCHANGED <<modelOk, dir, font, outputFile, lastRendered, triggered>>

\* The user picks another template: the script reruns, button not pressed.
SelectTemplate ==
    /\ phase = "ready"
    /\ \E i \in 1..Len(templates) :
          /\ templates[i] # selected_template
          /\ selected_template' = templates[i]
    /\ NoRun
    /\ messages' = {"info"}
    /\ UNCHANGED <<phase, modelOk, dir, font, controls, templates, prompt,
                   outputFile, lastRendered, triggered>>

\* The user edits the topic: the script reruns, button not pressed.
EnterTopic ==
    /\ phase = "ready"
    /\ \E t \in ScriptTopics : t # prompt /\ prompt' = t
    /\ NoRun
    /\ messages' = {"info"}
    /\ UNCHANGED <<phase, modelOk, dir, font, controls, templates,
                   selected_template, outputFile, lastRendered, triggered>>

\* The raw texts the capability returns in the script runs: the echoed
\* prompt followed by a continuation.
Continuations ==
    { <<>>,
      <<" ","s","o"," ","t","r","u","e","\n">>,
      <<" ","E","r","r","o","r"," ","4","0","4">>,
      <<" ","w","h","e","n"," ","t","h","e"," ",
        "p","r","o","c","r","a","s","t","i","n","a","t","i","o","n",
        "i","s","o","v","e","r","w","h","e","l","m","i","n","g">> }

ScriptGenOutcomes(prompt_text) ==
    {GenRaise, GenMalformed}
        \cup { GenText(FullPrompt(prompt_text) \o c) : c \in Continuations }

\* the test of the caption without the "Error" part
CaptionAccepted_NonEmpty(c) == c # <<>>

\* if caption and "Error" not in caption
CaptionAccepted(c) == c # <<>> /\ ~Contains(c, ERROR_WORD)

\* final_image.save("meme_output.png") ending as o on the file f
SaveImage(img, o, f) ==
    IF o = "ok" THEN img
    ELSE IF o = "save_encode_fail" /\ f # NoFile THEN Truncated
    ELSE f

\* The user presses "Generate Meme!": the script reruns with the button set
\* and runs the handler of lines 143-166.  g is what the capability does if
\* invoked, tl how Image.open ends if the renderer is called, o how display
\* and save end if the renderer returned an image.
Trigger ==
    /\ phase = "ready"
    /\ \E g \in (IF prompt = <<>> THEN {NoGen} ELSE ScriptGenOutcomes(prompt)) :
       \E gc \in {generate_caption(prompt, g)} :
       \E template_path \in {TemplatePath(selected_template)} :
       \E accepted \in {CaptionAccepted(gc.ret)} :
       \E tl \in (IF accepted THEN TemplateLoads ELSE {"unused"}) :
       \E r \in {IF accepted
                 THEN create_image_with_text(template_path, gc.ret, tl, font)
                 ELSE [img |-> None, errors |-> {}]} :
       \E rendered \in {r.img # None} :
       \E o \in (IF rendered THEN IOOutcomes ELSE {"unused"}) :
            /\ caption' = gc.ret
            /\ modelCalls' = gc.calls
            /\ gen' = g
            /\ renderCalls' = IF accepted THEN << <<template_path, gc.ret>> >>
                              ELSE <<>>
            /\ tload' = tl
            /\ final_image' = r.img
            /\ io' = o
            /\ shown' = (rendered /\ o # "display_fail")
            /\ download' = (rendered /\ o = "ok")
            /\ crashed' = (rendered /\ o # "ok")
            /\ outputFile' = IF rendered /\ o # "display_fail"
                             THEN SaveImage(r.img, o, outputFile)
                             ELSE outputFile
            /\ lastRendered' = IF rendered THEN r.img ELSE lastRendered
            /\ messages' = gc.errors \cup r.errors
                             \cup (IF ~accepted THEN {"caption_error"}
                                   ELSE IF ~rendered THEN {"warning"} ELSE {})
    /\ generate_button' = TRUE
    /\ triggered' = TRUE
    /\ UNCHANGED <<phase, modelOk, dir, font, controls, templates,
                   selected_template, prompt>>

Next == Startup \/ SelectTemplate \/ EnterTopic \/ Trigger

Spec == Init /\ [][Next]_vars

\* ------------------------------------------ generate_caption on its own

\* the variables a call under test does not touch
OutsideScript ==
    /\ modelOk = TRUE
    /\ dir = DirAbsent
    /\ controls = FALSE
    /\ templates = <<>>
    /\ generate_button = FALSE
    /\ io = "unused"
    /\ modelCalls = 0
    /\ renderCalls = <<>>
    /\ final_image = None
    /\ shown = FALSE
    /\ download = FALSE
    /\ messages = {}
    /\ crashed = FALSE
    /\ outputFile = NoFile
    /\ lastRendered = NoFile
    /\ triggered = FALSE

\* a topic, and what the capability will do if it is invoked
InitCaption ==
    /\ phase = "call"
    /\ OutsideScript
    /\ font = FontMissing
    /\ selected_template = <<>>
    /\ tload = "unused"
    /\ caption = <<>>
    /\ prompt \in Topics
    /\ gen \in GenOutcomes(prompt)

\* caption = generate_caption(prompt)
CallGenerateCaption ==
    /\ phase = "call"
    /\ gen # NoGen
    /\ \E gc \in {generate_caption(prompt, gen)} :
          /\ caption' = gc.ret
          /\ modelCalls' = gc.calls
          /\ messages' = gc.errors
    /\ phase' = "returned"
    /\ UNCHANGED <<modelOk, dir, font, controls, templates, selected_template,
                   prompt, generate_button, gen, tload, io, renderCalls,
                   final_image, shown, download, crashed, outputFile,
                   lastRendered, triggered>>

NextCaption == CallGenerateCaption

SpecCaption == InitCaption /\ [][NextCaption]_vars

\* ------------------------------------ create_image_with_text on its own

LONG_WORD ==
    <<"s","u","p","e","r","c","a","l","i","f","r","a","g","i","l","i","s",
      "t","i","c">>

WordPieces == { <<"m","e","m","e">>, <<" ">>, <<"\n">>, LONG_WORD }

\* The captions the handler can pass: not empty, and stripped.
RenderCaptions ==
    { c \in { Flat(ps) : ps \in SeqsUpTo(WordPieces, MaxWords) } :
        c # <<>> /\ Strip(c) = c }

\* a template file, a caption, how Image.open will end, the font asset
InitRender ==
    /\ phase = "call"
    /\ OutsideScript
    /\ prompt = <<>>
    /\ gen = NoGen
    /\ selected_template \in {A_PNG, B_JPG, C_JPEG}
    /\ tload \in TemplateLoads
    /\ font \in Fonts
    /\ caption \in RenderCaptions

\* final_image = create_image_with_text(template_path, caption)
CallCreateImage ==
    /\ phase = "call"
    /\ gen = NoGen
    /\ \E template_path \in {TemplatePath(selected_template)} :
       \E r \in {create_image_with_text(template_path, caption, tload, font)} :
          /\ renderCalls' = << <<template_path, caption>> >>
          /\ final_image' = r.img
          /\ messages' = r.errors
    /\ phase' = "returned"
    /\ UNCHANGED <<modelOk, dir, font, controls, templates, selected_template,
                   prompt, generate_button, gen, tload, io, caption,
                   modelCalls, shown, download, crashed, outputFile,
                   lastRendered, triggered>>

NextRender == CallCreateImage

SpecRender == InitRender /\ [][NextRender]_vars

\* ------------------------------------------------------------------ claims

\* C1: generate_caption called with an empty topic returns
\* "Please enter a topic!" and does not invoke the capability.
C1_EmptyTopicNoModelCall ==
    (phase = "returned" /\ prompt = <<>>)
        => (caption = EMPTY_TOPIC_MSG /\ modelCalls = 0 /\ messages = {})

C1_Witness ==
    /\ phase = "returned"
    /\ prompt = <<>>
    /\ gen.kind = "text"
    /\ caption = EMPTY_TOPIC_MSG
    /\ modelCalls = 0

\* C2: for a non-empty topic, the value generate_caption returns never
\* contains the instructional prompt built for that topic.
C2_PromptNeverInCaption ==
    (phase = "returned" /\ prompt # <<>>)
        => ~Contains(caption, FullPrompt(prompt))

\* C3: when the capability fails on a trigger with a non-empty topic,
\* generate_caption returns "Error generating text.", the capability was
\* invoked exactly once, an error banner is shown and the renderer is not
\* called.
C3_GenerationFailureStops ==
    (generate_button /\ prompt # <<>> /\ gen.kind \in {"raise", "malformed"})
        => /\ caption = ERROR_MSG
           /\ modelCalls = 1
           /\ {"gen_error", "caption_error"} \subseteq messages
           /\ renderCalls = <<>>
           /\ final_image = None
           /\ ~shown
           /\ ~download

C3_Witness ==
    /\ generate_button
    /\ prompt # <<>>
    /\ gen.kind = "malformed"
    /\ caption = ERROR_MSG
    /\ renderCalls = <<>>

\* C4: on every trigger where the capability returns a text for a non-empty
\* topic, the renderer is called with the selected template and the caption
\* generate_caption returned, whatever that caption is.
C4_SuccessAlwaysRenders ==
    (generate_button /\ prompt # <<>> /\ gen.kind = "text")
        => renderCalls = << <<TemplatePath(selected_template), caption>> >>

\* C5: the renderer is called on a trigger only if the capability produced
\* the caption; on a trigger with an empty topic the renderer is not called,
\* no meme is displayed and no download is offered.
C5_EmptyTopicNotRendered ==
    /\ (generate_button /\ renderCalls # <<>>)
          => (prompt # <<>> /\ gen.kind = "text")
    /\ (generate_button /\ prompt = <<>>)
          => (renderCalls = <<>> /\ ~shown /\ ~download)

\* C6: the image create_image_with_text returns has the width and the
\* height of the template it was opened from.
C6_SameDimensions ==
    (phase = "returned" /\ final_image # None)
        => final_image.size = ImageSize(TemplatePath(selected_template))

C6_Witness ==
    /\ phase = "returned"
    /\ final_image # None
    /\ LineCount(final_image.text) > 1
    /\ final_image.size = <<800, 600>>

\* C7: the output file holds the meme of the most recent trigger whose
\* render returned an image, and a trigger without an image shows no meme
\* and offers no download.
C7_OutputFileIsLatestMeme ==
    /\ outputFile = lastRendered
    /\ (generate_button /\ final_image = None) => (~shown /\ ~download)

\* C8: every failure while a trigger is handled ends in a banner and the
\* handler completes; no exception leaves the script uncaught.
C8_NoUncaughtFailure ==
    generate_button
        => /\ ~crashed
           /\ (\/ gen.kind \in {"raise", "malformed"}
               \/ tload \in {"missing", "unreadable"}
               \/ (renderCalls # <<>> /\ final_image = None)
               \/ io \notin {"ok", "unused"})
                 => messages # {}

\* the directory is absent or holds no name ending in png, jpg or jpeg
NoTemplateOnDisk ==
    \/ ~dir.exists
    \/ \A i \in 1..Len(dir.names) :
          \A suf \in SUFFIXES : ~EndsWith(dir.names[i], suf)

\* C9: without a template on disk, startup stops with an error banner and
\* creates no controls, so there is never a trigger, a model call, a render
\* or a write of the output file.
C9_NoTemplatesStopsStartup ==
    NoTemplateOnDisk
        => /\ ~controls
           /\ ~triggered
           /\ ~generate_button
           /\ modelCalls = 0
           /\ renderCalls = <<>>
           /\ outputFile = NoFile
           /\ phase \in {"start", "stopped"}
           /\ phase = "stopped"
                 => messages \cap {"model_error", "dir_not_found",
                                   "no_templates"} # {}

C9_Witness ==
    /\ phase = "stopped"
    /\ modelOk
    /\ dir.exists
    /\ dir.names # <<>>
    /\ messages = {"no_templates"}

\* the characters-per-line budget of the call under test
Budget ==
    LET image_width == ImageSize(TemplatePath(selected_template))[1]
    IN  CharsPerLine(image_width,
                     SumBBox(font, UPPERCASE, FontSize(image_width)))

\* the caption holds a whitespace-free token longer than the budget
HasLongToken ==
    \E i \in 1..Len(caption) :
        /\ i + Budget <= Len(caption)
        /\ \A k \in i..(i + Budget) : caption[k] \notin Whitespace

====
